---------------------------- MODULE Spec2Model ----------------------------
(***************************************************************************)
(* TriCore back end: the addressing-mode matcher of the instruction        *)
(* selector (TriCoreISelDAGToDAG.cpp) and the fixup encoder and applier of *)
(* the assembler back end (TriCoreAsmBackend.cpp).                         *)
(*                                                                         *)
(* MatchAddress returns true when it could NOT match (the source's         *)
(* convention); the model keeps it as the field "failed".                  *)
(***************************************************************************)
EXTENDS Integers, Sequences, FiniteSets

VARIABLES
  pc,      \* matcher: "idle" before SelectAddr is called, "done" after it returned
  Addr,    \* matcher: the node SelectAddr was called on
  AM,      \* matcher: the TriCoreISelAddressMode of SelectAddr_new after MatchAddress
  calls,   \* matcher: every MatchAddress call made: its node, the descriptor at
           \* entry and at return, its return value and the return it left by
  Ret,     \* matcher: the value SelectAddr returned
  Base,    \* matcher: the Base operand SelectAddr_new wrote
  Disp,    \* matcher: the Disp operand SelectAddr_new wrote
  Data,    \* fixups: the fragment's bytes
  Data0,   \* fixups: the fragment's bytes before the first fixup
  prev,    \* fixups: the fragment's bytes before the last applyFixup
  fix,     \* fixups: the last fixup handled (kind, value, offset) and by which hook
  Encoded, \* fixups: what adjustFixupValue returned for it
  IsResolved, \* fixups: processFixupValue's out-parameter
  nFix     \* fixups: how many fixups were handled

matchVars == <<pc, Addr, AM, calls, Ret, Base, Disp>>
fixVars   == <<Data, Data0, prev, fix, Encoded, IsResolved, nFix>>
vars      == <<pc, Addr, AM, calls, Ret, Base, Disp,
               Data, Data0, prev, fix, Encoded, IsResolved, nFix>>

(***************************************************************************)
(* Bounds                                                                  *)
(***************************************************************************)
\* The most ADD/OR operators in an address expression.
MaxOps == 2
\* The most fixups handled on one fragment.
MaxFixups == 2

(***************************************************************************)
(* SelectionDAG nodes                                                      *)
(***************************************************************************)
\* The pointer type is i32.
PtrBits == 32
AllBits == 0 .. (PtrBits - 1)

\* An SDValue holding no node.
NoNode == [op |-> "null"]

ConstantNode(v)  == [op |-> "Constant", val |-> v]
\* A node MatchAddress has no case for (here a register copy). kz: the bits the
\* DAG's known-bits analysis reports as zero for it.
OpaqueNode(r, kz) == [op |-> "CopyFromReg", reg |-> r, kz |-> kz]
FrameIndexNode(i, kz) == [op |-> "FrameIndex", idx |-> i, kz |-> kz]
GlobalAddressNode(g, off) == [op |-> "GlobalAddress", gv |-> g, off |-> off]
ExternalSymbolNode(s) == [op |-> "ExternalSymbol", sym |-> s]
WrapperNode(n, kz) == [op |-> "Wrapper", a |-> n, kz |-> kz]
BinNode(o, x, y) == [op |-> o, a |-> x, b |-> y]

\* The constants of the address expressions: getSExtValue() of each. Disp is
\* an int64_t; the sums of these stay far from its ends, so the model adds them
\* as integers.
ConstVals == {0, 3, 8}
\* A register of which no bit is known.
RegR == OpaqueNode("R", {})
\* A frame slot known to be 4-byte aligned.
Slot0 == FrameIndexNode(0, {0, 1})
\* Wrapped symbols: a global with a byte offset, and an external symbol. No bit
\* of a target node is known.
WrapG == WrapperNode(GlobalAddressNode("g", 4), {})
WrapE == WrapperNode(ExternalSymbolNode("e"), {})

Leaves ==
  {ConstantNode(v) : v \in ConstVals}
    \cup {RegR, Slot0, WrapG, WrapE}

\* The shapes of the expressions with exactly n ADD/OR operators.
RECURSIVE Shapes(_)
Shapes(n) ==
  IF n = 0 THEN {[op |-> "leaf"]}
  ELSE UNION { { [op |-> "bin", a |-> x, b |-> y] : x \in Shapes(i), y \in Shapes(n - 1 - i) }
               : i \in 0 .. (n - 1) }

RECURSIVE NumOps(_)
NumOps(s) == IF s.op = "leaf" THEN 0 ELSE 1 + NumOps(s.a) + NumOps(s.b)

\* The expression of shape s whose operators are ops[oi], ops[oi + 1], ... and
\* whose leaves are lv[li], lv[li + 1], ..., both in prefix order.
RECURSIVE Expr(_, _, _, _, _)
Expr(s, ops, lv, oi, li) ==
  IF s.op = "leaf" THEN lv[li]
  ELSE BinNode(ops[oi],
               Expr(s.a, ops, lv, oi + 1, li),
               Expr(s.b, ops, lv, oi + 1 + NumOps(s.a), li + NumOps(s.a) + 1))

\* Bit i of v in two's complement (\div rounds down).
RECURSIVE BitOf(_, _)
BitOf(v, i) == IF i = 0 THEN v % 2 ELSE BitOf(v \div 2, i - 1)

BitsOfConst == [v \in ConstVals |-> { i \in AllBits : BitOf(v, i) = 1 }]

\* getAPIntValue(): the bits set in the constant.
Bits(v) == BitsOfConst[v]

\* computeKnownBits: the bits the DAG knows to be zero in N. Exact for a
\* constant; what the analysis reports for a leaf; for OR the bits zero in both
\* operands; for ADD the low bits zero in both operands (no carry reaches them).
RECURSIVE KnownZero(_)
KnownZero(N) ==
  CASE N.op = "Constant" -> AllBits \ Bits(N.val)
    [] N.op = "OR" -> KnownZero(N.a) \cap KnownZero(N.b)
    [] N.op = "ADD" ->
         LET z == KnownZero(N.a) \cap KnownZero(N.b)
         IN { i \in AllBits : \A j \in 0 .. i : j \in z }
    [] OTHER -> N.kz

\* CurDAG->MaskedValueIsZero(Op, Mask): every bit of Mask is known zero in Op.
MaskedValueIsZero(N, Mask) == Mask \subseteq KnownZero(N)

(***************************************************************************)
(* TriCoreISelAddressMode                                                  *)
(***************************************************************************)
\* What the uninitialised Base.FrameIndex may hold after construction.
Garbage == {0, 7}

\* The constructor: it sets every field but Base.FrameIndex (Base.Reg is an
\* SDValue, default-constructed empty).
TriCoreISelAddressMode(g) ==
  [BaseType |-> "RegBase", Reg |-> NoNode, FrameIndex |-> g, Disp |-> 0,
   GV |-> "nullptr", CP |-> "nullptr", BlockAddr |-> "nullptr", ES |-> "nullptr",
   JT |-> -1, Align |-> 0]

hasSymbolicDisplacement(am) ==
  am.GV # "nullptr" \/ am.CP # "nullptr" \/ am.ES # "nullptr" \/ am.JT # -1

(***************************************************************************)
(* The matcher                                                             *)
(***************************************************************************)
\* A slip: the test for a symbol already there left out.
MatchWrapper_Overwrite(N, am) ==
  IF N.a.op = "GlobalAddress"
  THEN [failed |-> FALSE, AM |-> [am EXCEPT !.GV = N.a.gv, !.Disp = @ + N.a.off]]
  ELSE [failed |-> FALSE, AM |-> am]

\* MatchWrapper: no second symbol; a wrapped global sets GV and adds its offset,
\* any other wrapped node matches without a change.
MatchWrapper(N, am) ==
  IF hasSymbolicDisplacement(am) THEN [failed |-> TRUE, AM |-> am]
  ELSE IF N.a.op = "GlobalAddress"
       THEN [failed |-> FALSE,
             AM |-> [am EXCEPT !.GV = N.a.gv, !.Disp = @ + N.a.off]]
       ELSE [failed |-> FALSE, AM |-> am]

\* A slip: the base is written before the test whether it is free.
MatchAddressBase_AssignFirst(N, am) ==
  [failed |-> (am.BaseType # "RegBase" \/ am.Reg # NoNode),
   AM |-> [am EXCEPT !.BaseType = "RegBase", !.Reg = N]]

\* A slip: only the register is tested, the kind of the base is not.
MatchAddressBase_NoKindCheck(N, am) ==
  IF am.Reg # NoNode THEN [failed |-> TRUE, AM |-> am]
  ELSE [failed |-> FALSE, AM |-> [am EXCEPT !.BaseType = "RegBase", !.Reg = N]]

\* MatchAddressBase: N becomes the register base unless a base is there.
MatchAddressBase(N, am) ==
  IF am.BaseType # "RegBase" \/ am.Reg # NoNode THEN [failed |-> TRUE, AM |-> am]
  ELSE [failed |-> FALSE, AM |-> [am EXCEPT !.BaseType = "RegBase", !.Reg = N]]

\* A slip: the statement "AM = Backup" left out.
Restore_Skipped(am, Backup) == am

\* "AM = Backup": the descriptor is assigned the snapshot.
Restore(am, Backup) == Backup

\* What a MatchAddress call hands back: its return value, the descriptor as it
\* left it, the return statement it left by, and the calls made below it.
Result(failed, am, via, log) == [failed |-> failed, AM |-> am, via |-> via, log |-> log]

\* "break; ... return MatchAddressBase(N, AM)".
Fallback(N, am, log) ==
  LET b == MatchAddressBase(N, am) IN Result(b.failed, b.AM, "base", log)

\* A slip: "X | C" taken for "X + C" without the proof that X has C's bits clear.
OrIsAdd_NoMaskTest(N, l) == ~l.failed /\ l.AM.GV = "nullptr"

\* A slip: the test that no global was picked left out.
OrIsAdd_NoGlobalTest(N, l) == ~l.failed /\ MaskedValueIsZero(N.a, Bits(N.b.val))

\* The condition under which "X | C" is handled as "X + C", l being what
\* MatchAddress on X handed back: X matched, the descriptor holds no global,
\* and X & C is zero.
OrIsAdd(N, l) ==
  ~l.failed /\ l.AM.GV = "nullptr" /\ MaskedValueIsZero(N.a, Bits(N.b.val))

RECURSIVE MatchAddress(_, _)
MatchAddress(N, am) ==
  LET r ==
    CASE N.op = "Constant" ->
           Result(FALSE, [am EXCEPT !.Disp = @ + N.val], "constant", {})
      [] N.op = "Wrapper" ->
           LET w == MatchWrapper(N, am)
           IN IF ~w.failed THEN Result(FALSE, w.AM, "wrapper", {})
              ELSE Fallback(N, w.AM, {})
      [] N.op = "FrameIndex" ->
           IF am.BaseType = "RegBase" /\ am.Reg = NoNode
           THEN Result(FALSE, [am EXCEPT !.BaseType = "FrameIndexBase",
                                         !.FrameIndex = N.idx], "frameindex", {})
           ELSE Fallback(N, am, {})
      [] N.op = "ADD" ->
           LET Backup == am
               f0  == MatchAddress(N.a, am)
               f01 == MatchAddress(N.b, f0.AM)
               \* the descriptor and the calls after the first condition
               am1  == IF f0.failed THEN f0.AM ELSE f01.AM
               log1 == IF f0.failed THEN f0.log ELSE f0.log \cup f01.log
               am2 == Restore(am1, Backup)
               s1  == MatchAddress(N.b, am2)
               s10 == MatchAddress(N.a, s1.AM)
               am3  == IF s1.failed THEN s1.AM ELSE s10.AM
               log3 == log1 \cup (IF s1.failed THEN s1.log ELSE s1.log \cup s10.log)
           IN IF ~f0.failed /\ ~f01.failed
              THEN Result(FALSE, f01.AM, "add01", log1)
              ELSE IF ~s1.failed /\ ~s10.failed
                   THEN Result(FALSE, s10.AM, "add10", log3)
                   ELSE Fallback(N, Restore(am3, Backup), log3)
      [] N.op = "OR" ->
           IF N.b.op = "Constant"
           THEN LET Backup == am
                    Offset == N.b.val
                    l == MatchAddress(N.a, am)
                IN IF OrIsAdd(N, l)
                   THEN Result(FALSE, [l.AM EXCEPT !.Disp = @ + Offset], "orfold", l.log)
                   ELSE Fallback(N, Restore(l.AM, Backup), l.log)
           ELSE Fallback(N, am, {})
      [] OTHER -> Fallback(N, am, {})
  IN [r EXCEPT !.log = @ \cup {[N |-> N, before |-> am, after |-> r.AM,
                                failed |-> r.failed, via |-> r.via]}]

\* SelectAddr_new on node N, with g in the uninitialised field of its descriptor.
SelectAddr_new(N, g) ==
  LET m   == MatchAddress(N, TriCoreISelAddressMode(g))
      am1 == IF m.AM.BaseType = "RegBase" /\ m.AM.Reg = NoNode
             THEN [m.AM EXCEPT !.Reg = [op |-> "Register", reg |-> 0]]
             ELSE m.AM
      base == IF am1.BaseType = "FrameIndexBase"
              THEN [op |-> "TargetFrameIndex", idx |-> am1.FrameIndex]
              ELSE am1.Reg
  IN IF m.failed
     THEN [ret |-> FALSE, Base |-> NoNode, Disp |-> NoNode, AM |-> m.AM, log |-> m.log]
     ELSE [ret |-> TRUE,
           Base |-> IF am1.GV # "nullptr" THEN N ELSE base,
           Disp |-> [op |-> "TargetConstant", val |-> am1.Disp],
           AM |-> am1, log |-> m.log]

MatchIdle ==
  /\ pc = "idle" /\ Addr = NoNode /\ AM = NoNode /\ calls = {}
  /\ Ret = FALSE /\ Base = NoNode /\ Disp = NoNode

\* SelectAddr(Addr, Base, Offset): "return SelectAddr_new(Addr, Base, Offset)".
SelectAddr ==
  /\ pc = "idle"
  /\ \E n \in 0 .. MaxOps : \E sh \in Shapes(n) :
     \E ops \in [1 .. n -> {"ADD", "OR"}], lv \in [1 .. (n + 1) -> Leaves], g \in Garbage :
       LET N == Expr(sh, ops, lv, 1, 1)
           s == SelectAddr_new(N, g)
       IN /\ Addr' = N
          /\ AM' = s.AM
          /\ calls' = s.log
          /\ Ret' = s.ret
          /\ Base' = s.Base
          /\ Disp' = s.Disp
  /\ pc' = "done"
  /\ UNCHANGED fixVars

(***************************************************************************)
(* Fixups                                                                  *)
(***************************************************************************)
RECURSIVE BitAnd(_, _)
BitAnd(x, y) ==
  IF x = 0 \/ y = 0 THEN 0
  ELSE (x % 2) * (y % 2) + 2 * BitAnd(x \div 2, y \div 2)

RECURSIVE BitOr(_, _)
BitOr(x, y) ==
  IF x = 0 THEN y
  ELSE IF y = 0 THEN x
  ELSE (IF x % 2 = 1 \/ y % 2 = 1 THEN 1 ELSE 0) + 2 * BitOr(x \div 2, y \div 2)

\* A fixup value is held as its two 16-bit halves, bits 31..16 and bits 15..0
\* (the bits above bit 31 of the uint64_t never reach the result).
Word(h, l) == [hi |-> h, lo |-> l]

\* "Value >>= 16".
Shr16(V) == Word(0, V.hi)

FixupKinds == {"fixup_leg_mov_hi16_pcrel", "fixup_leg_mov_lo16_pcrel"}

\* A slip: the hi16 case leaves the switch after its shift.
adjustFixupValue_NoFallThrough(Kind, Value) ==
  IF Kind = "fixup_leg_mov_hi16_pcrel" THEN Shr16(Value).lo
  ELSE BitOr((BitAnd(Value.lo, 61440) \div 4096) * 65536, BitAnd(Value.lo, 4095))

\* adjustFixupValue: hi16 shifts and falls through into lo16, which packs bits
\* 15..12 (mask 0xF000) into bits 19..16 and keeps bits 11..0 (mask 0x0FFF).
adjustFixupValue(Kind, Value) ==
  LET V1   == IF Kind = "fixup_leg_mov_hi16_pcrel" THEN Shr16(Value) ELSE Value
      Hi4  == BitAnd(V1.lo, 61440) \div 4096
      Lo12 == BitAnd(V1.lo, 4095)
  IN BitOr(Hi4 * 65536, Lo12)

\* "unsigned NumBytes = 4".
NumBytes == 4
\* The fragment is one byte longer than a fixup.
DataSize == NumBytes + 1
\* "assert(Offset + NumBytes <= DataSize)".
Offsets == { o \in 0 .. DataSize : o + NumBytes <= DataSize }

RECURSIVE Pow256(_)
Pow256(i) == IF i = 0 THEN 1 ELSE 256 * Pow256(i - 1)

\* "uint8_t((Value >> (i * 8)) & 0xff)".
ByteOf(v, i) == (v \div Pow256(i)) % 256

\* A slip: the encoded word is stored, not merged.
applyFixupData_Overwrite(Kind, Value, Offset, D) ==
  LET v == adjustFixupValue(Kind, Value)
  IN [j \in DOMAIN D |->
        IF j \in Offset .. (Offset + NumBytes - 1) THEN ByteOf(v, j - Offset) ELSE D[j]]

\* A slip: the bytes are merged most significant first.
applyFixupData_BigEndian(Kind, Value, Offset, D) ==
  LET v == adjustFixupValue(Kind, Value)
  IN IF v = 0 THEN D
     ELSE [j \in DOMAIN D |->
             IF j \in Offset .. (Offset + NumBytes - 1)
             THEN BitOr(D[j], ByteOf(v, NumBytes - 1 - (j - Offset)))
             ELSE D[j]]

\* applyFixup's effect on the bytes D of the fragment.
applyFixupData(Kind, Value, Offset, D) ==
  LET v == adjustFixupValue(Kind, Value)
  IN IF v = 0 THEN D
     ELSE [j \in DOMAIN D |->
             IF j \in Offset .. (Offset + NumBytes - 1)
             THEN BitOr(D[j], ByteOf(v, j - Offset))
             ELSE D[j]]

\* The resolved values handed in: zero, 0x12345678, 0x12340000, 0x00005678,
\* 0xFFFFFFFF, 0x8000F000, 0x0FFF0FFF and 0xA5C35A3C.
RawValues ==
  {Word(0, 0), Word(4660, 22136), Word(4660, 0), Word(0, 22136),
   Word(65535, 65535), Word(32768, 61440), Word(4095, 4095), Word(42435, 23100)}

\* The fragment before any fixup: zeroed, as the encoder leaves it, and with
\* bits already there.
InitBuffers ==
  {[j \in 0 .. (DataSize - 1) |-> 0],
   [j \in 0 .. (DataSize - 1) |-> 165],
   [j \in 0 .. (DataSize - 1) |-> IF j % 2 = 0 THEN 240 ELSE 15]}

FixIdle ==
  /\ Data = <<>> /\ Data0 = <<>> /\ prev = <<>>
  /\ fix = [hook |-> "none"] /\ Encoded = 0 /\ IsResolved = FALSE /\ nFix = 0

FixInit ==
  /\ Data \in InitBuffers /\ Data0 = Data /\ prev = Data
  /\ fix = [hook |-> "none"] /\ Encoded = 0 /\ IsResolved = FALSE /\ nFix = 0

\* processFixupValue: the fixup is resolved; the value is adjusted and dropped.
processFixupValue ==
  /\ nFix < MaxFixups
  /\ \E k \in FixupKinds, v \in RawValues, o \in Offsets :
       /\ fix' = [hook |-> "process", Kind |-> k, Value |-> v, Offset |-> o]
       /\ Encoded' = adjustFixupValue(k, v)
  /\ IsResolved' = TRUE
  /\ nFix' = nFix + 1
  /\ UNCHANGED <<Data, Data0, prev>>
  /\ UNCHANGED matchVars

\* applyFixup(Fixup, Data, DataSize, Value, IsPCRel).
applyFixup ==
  /\ nFix < MaxFixups
  /\ \E k \in FixupKinds, v \in RawValues, o \in Offsets :
       /\ fix' = [hook |-> "apply", Kind |-> k, Value |-> v, Offset |-> o]
       /\ Encoded' = adjustFixupValue(k, v)
       /\ Data' = applyFixupData(k, v, o, Data)
  /\ prev' = Data
  /\ nFix' = nFix + 1
  /\ UNCHANGED <<Data0, IsResolved>>
  /\ UNCHANGED matchVars

(***************************************************************************)
(* Specifications                                                          *)
(***************************************************************************)
Init == MatchIdle /\ FixIdle

Next == SelectAddr

\* The instruction selector asked for one address.
Spec == Init /\ [][Next]_vars

FixupInit == MatchIdle /\ FixInit

FixupNext == processFixupValue \/ applyFixup

\* The assembler handling the fixups of one fragment.
FixupSpec == FixupInit /\ [][FixupNext]_vars

(***************************************************************************)
(* Properties of the matcher                                               *)
(***************************************************************************)
\* A base, of either kind, is in the descriptor.
OccupiedBase(d) == d.BaseType = "FrameIndexBase" \/ d.Reg # NoNode

\* A symbol is in the descriptor.
SymbolSet(d) ==
  d.GV # "nullptr" \/ d.CP # "nullptr" \/ d.ES # "nullptr" \/ d.JT # -1

\* The descriptor d with node N as its register base.
WithRegBase(d, N) == [d EXCEPT !.BaseType = "RegBase", !.Reg = N]

\* The outcome of offering N as the base of descriptor d, in call c.
OfferedAsBase(c, d) ==
  IF OccupiedBase(d) THEN c.failed /\ c.after = d
  ELSE ~c.failed /\ c.after = WithRegBase(d, c.N)

\* C1: a MatchAddress call that reports failure leaves the descriptor equal, field
\* by field, to the descriptor it was entered with, at every depth of nesting.
C1_FailedMatchRestoresDescriptor ==
  \A c \in calls : c.failed => c.after = c.before

\* C1: an ADD failed although one of its operands had matched, and changed, the
\* descriptor the ADD was entered with.
C1_Witness ==
  \E c \in calls :
    /\ c.failed /\ c.N.op = "ADD"
    /\ \E s \in calls :
         /\ s.N \in {c.N.a, c.N.b} /\ s.before = c.before
         /\ ~s.failed /\ s.after # c.before

\* The node is "X | C" with a constant C.
OrWithConstant(N) == N.op = "OR" /\ N.b.op = "Constant"

\* Every bit set in the constant of "X | C" is known zero in X.
Covers(N) == \A i \in AllBits : BitOf(N.b.val, i) = 1 => i \in KnownZero(N.a)

\* C2 as claimed: "X | C" is folded into the displacement exactly when the known
\* zero bits of X cover C, and otherwise the OR node becomes the register base
\* (stated for C other than 0, which no X fails to cover).
C2_FoldsIffCovered ==
  \A c \in calls :
    (OrWithConstant(c.N) /\ c.N.b.val # 0) =>
      /\ (c.via = "orfold") <=> Covers(c.N)
      /\ c.via # "orfold" => (~c.failed /\ c.after = WithRegBase(c.before, c.N))

\* C2, amended: "X | C" is folded exactly when X matched on the entry
\* descriptor, the descriptor then holds no global, and the known zero bits of
\* X cover C; the result is then X's match with C added to the displacement.
\* Otherwise the entry descriptor is restored and the OR node is offered as the
\* base: taken if no base is there, and a failure that changes nothing if one is.
C2_FoldsIffMatchedNoGlobalCovered ==
  \A c \in calls :
    OrWithConstant(c.N) =>
      \E l \in calls :
        /\ l.N = c.N.a /\ l.before = c.before
        /\ (c.via = "orfold") <=>
             (~l.failed /\ l.after.GV = "nullptr" /\ Covers(c.N))
        /\ c.via = "orfold" =>
             (~c.failed /\ c.after = [l.after EXCEPT !.Disp = @ + c.N.b.val])
        /\ c.via # "orfold" => OfferedAsBase(c, c.before)

\* C2: in one selection an OR with a covered, non-zero constant was folded on
\* the empty descriptor, and failed, not folded, on a descriptor with a base.
C2_Witness ==
  /\ \E c \in calls : OrWithConstant(c.N) /\ c.via = "orfold" /\ c.N.b.val # 0
                      /\ c.after.Disp = c.before.Disp + c.N.b.val
  /\ \E c \in calls : OrWithConstant(c.N) /\ Covers(c.N) /\ c.N.b.val # 0
                      /\ c.failed /\ OccupiedBase(c.before)

\* C3 as claimed: a wrapper met with a symbol already in the descriptor fails
\* and changes nothing.
C3_WrapperFailsWhenSymbolSet ==
  \A c \in calls :
    (c.N.op = "Wrapper" /\ SymbolSet(c.before)) => (c.failed /\ c.after = c.before)

\* C3, amended: a wrapper met with a symbol already in the descriptor is not
\* matched as a symbol (symbol and displacement stay) but offered as the
\* register base: taken if no base is there, and a failure that changes nothing
\* if one is.
C3_WrapperOfferedAsBaseWhenSymbolSet ==
  \A c \in calls :
    (c.N.op = "Wrapper" /\ SymbolSet(c.before)) =>
      /\ c.via = "base"
      /\ OfferedAsBase(c, c.before)
      /\ c.after.GV = c.before.GV /\ c.after.Disp = c.before.Disp

\* C3: a second wrapper became the register base, and another one failed.
C3_Witness ==
  /\ \E c \in calls : c.N.op = "Wrapper" /\ SymbolSet(c.before) /\ ~c.failed
                      /\ c.after.Reg = c.N
  /\ \E c \in calls : c.N.op = "Wrapper" /\ SymbolSet(c.before) /\ c.failed

\* The descriptor has at most one base.
OneBase(d) == d.BaseType = "FrameIndexBase" => d.Reg = NoNode

\* Descriptors d and e have the same base.
SameBase(d, e) ==
  /\ d.BaseType = e.BaseType /\ d.Reg = e.Reg
  /\ d.BaseType = "FrameIndexBase" => d.FrameIndex = e.FrameIndex

\* C4: every descriptor a MatchAddress call is entered with or leaves behind,
\* and the one SelectAddr_new ends with, has a frame-slot base only with no
\* register set; and a call entered with a base leaves that base in place.
C4_AtMostOneBase ==
  /\ pc = "done" => OneBase(AM)
  /\ \A c \in calls :
       /\ OneBase(c.before) /\ OneBase(c.after)
       /\ OccupiedBase(c.before) => SameBase(c.before, c.after)

\* C4: with a frame slot as the base, a call matched and changed the
\* descriptor, and another call, offered as the base, failed.
C4_Witness ==
  /\ \E c \in calls : c.before.BaseType = "FrameIndexBase" /\ ~c.failed
                      /\ c.after # c.before
  /\ \E c \in calls : c.before.BaseType = "FrameIndexBase" /\ c.failed
                      /\ c.via = "base"

\* C8 as claimed: "R | C", R a register and C not covered, on the empty
\* descriptor, matches with the left operand R as the register base and
\* displacement 0.
C8_UncoveredOrGivesLeftOperandAsBase ==
  (pc = "done" /\ OrWithConstant(Addr) /\ Addr.a.op = "CopyFromReg" /\ ~Covers(Addr)) =>
    (Ret /\ AM.BaseType = "RegBase" /\ AM.Reg = Addr.a /\ AM.Disp = 0)

\* C8, amended: "R | C" with C not covered, on the empty descriptor, matches
\* with the OR node itself as the register base and displacement 0, whatever
\* node the left operand R is.
C8_UncoveredOrGivesOrNodeAsBase ==
  (pc = "done" /\ OrWithConstant(Addr) /\ ~Covers(Addr)) =>
    /\ Ret
    /\ AM.BaseType = "RegBase" /\ AM.Reg = Addr /\ AM.Disp = 0 /\ ~SymbolSet(AM)
    /\ Base = Addr /\ Disp = [op |-> "TargetConstant", val |-> 0]

\* C8: SelectAddr returned for R | 3, R a register of which no bit is known.
C8_Witness ==
  pc = "done" /\ Addr = BinNode("OR", RegR, ConstantNode(3)) /\ Base = Addr

\* Call c is MatchAddress on node N entered with descriptor d.
IsCall(c, N, d) == c.N = N /\ c.before = d

\* Both operands matched, X on descriptor d and then Y on what X left: the
\* calls (x, y) that did.
BothMatched(X, Y, d) ==
  { p \in calls \X calls :
      /\ IsCall(p[1], X, d) /\ ~p[1].failed
      /\ IsCall(p[2], Y, p[1].after) /\ ~p[2].failed }

\* C9: an ADD ends with the descriptor of the order (operand 0, operand 1), both
\* matched from the entry descriptor; failing that, with the descriptor of the
\* order (operand 1, operand 0), both matched from the entry descriptor again;
\* failing both, with the entry descriptor and the ADD node offered as the
\* base. add(R, 8) on the empty descriptor gives base R, displacement 8.
C9_AddTriesBothOrders ==
  /\ \A c \in calls :
       c.N.op = "ADD" =>
         LET first  == BothMatched(c.N.a, c.N.b, c.before)
             second == BothMatched(c.N.b, c.N.a, c.before)
         IN IF first # {}
            THEN \A p \in first : ~c.failed /\ c.via = "add01" /\ c.after = p[2].after
            ELSE IF second # {}
                 THEN \A p \in second :
                        ~c.failed /\ c.via = "add10" /\ c.after = p[2].after
                 ELSE c.via = "base" /\ OfferedAsBase(c, c.before)
  /\ (pc = "done" /\ Addr = BinNode("ADD", RegR, ConstantNode(8))) =>
       /\ Ret /\ AM.BaseType = "RegBase" /\ AM.Reg = RegR /\ AM.Disp = 8
       /\ Base = RegR /\ Disp = [op |-> "TargetConstant", val |-> 8]

\* C9: in one selection an ADD matched in the second order only, after its
\* first order had changed the descriptor, and another ADD matched in neither.
C9_Witness ==
  /\ \E c \in calls :
       /\ c.N.op = "ADD" /\ c.via = "add10"
       /\ \E x \in calls : IsCall(x, c.N.a, c.before) /\ ~x.failed
                           /\ x.after # c.before
  /\ \E c \in calls : c.N.op = "ADD" /\ c.via = "base"

\* C10: SelectAddr returns true whatever the node.
C10_SelectAddrNeverFails ==
  pc = "done" => Ret

\* C10: SelectAddr returned for an ADD of which neither order matched, so that
\* the ADD node itself had to become the base.
C10_Witness ==
  /\ pc = "done" /\ Addr.op = "ADD" /\ AM.Reg = Addr
  /\ \E c \in calls : c.failed

(***************************************************************************)
(* Properties of the fixups                                                *)
(***************************************************************************)
\* The encoding of low16-pc-relative as the design states it,
\* (((W >> 12) & 0xF) << 16) | (W & 0xFFF): W >> 12 is W.hi * 16 + W.lo \div 4096,
\* its low four bits are those of W.lo \div 4096, and the two parts share no bit.
Low16Encoding(W) == ((W.lo \div 4096) % 16) * 65536 + (W.lo % 4096)

\* C5: what adjustFixupValue returns for a hi16 fixup of value V is what it
\* returns for a lo16 fixup of V >> 16, and a lo16 fixup of W encodes to
\* (((W >> 12) & 0xF) << 16) | (W & 0xFFF).
C5_Hi16IsLo16OfShifted ==
  fix.hook # "none" =>
    /\ fix.Kind = "fixup_leg_mov_hi16_pcrel" =>
         /\ Encoded = adjustFixupValue("fixup_leg_mov_lo16_pcrel", Shr16(fix.Value))
         /\ Encoded = Low16Encoding(Shr16(fix.Value))
    /\ fix.Kind = "fixup_leg_mov_lo16_pcrel" => Encoded = Low16Encoding(fix.Value)

\* C5: a hi16 fixup of 0x12345678 was encoded, to 0x10234.
C5_Witness ==
  /\ fix.hook # "none" /\ fix.Kind = "fixup_leg_mov_hi16_pcrel"
  /\ fix.Value = Word(4660, 22136) /\ Encoded = 66100

\* C6: applyFixup with a value that encodes to 0 leaves every byte as it was.
C6_ZeroEncodingWritesNothing ==
  (fix.hook = "apply" /\ Encoded = 0) => Data = prev

\* C6: a fixup of a non-zero value that encodes to 0 was applied to a fragment
\* with bits set under it.
C6_Witness ==
  /\ fix.hook = "apply" /\ Encoded = 0 /\ fix.Value # Word(0, 0)
  /\ \A j \in DOMAIN Data : Data[j] # 0

\* Bit k of byte x.
ByteBit(x, k) == BitOf(x, k) = 1

\* C7: applyFixup with a non-zero encoding leaves in each of the four bytes at
\* the offset the bits that were there or are in the byte of the encoding of that
\* place (least significant first), and leaves the other bytes alone; and no bit
\* of the fragment is cleared by any sequence of fixups.
C7_BytesAreOrMerged ==
  /\ (fix.hook = "apply" /\ Encoded # 0) =>
       \A j \in DOMAIN Data :
         IF j \in fix.Offset .. (fix.Offset + 3)
         THEN \A k \in 0 .. 7 :
                ByteBit(Data[j], k) <=>
                  (ByteBit(prev[j], k) \/ BitOf(Encoded, 8 * (j - fix.Offset) + k) = 1)
         ELSE Data[j] = prev[j]
  /\ \A j \in DOMAIN Data : \A k \in 0 .. 7 : ByteBit(Data0[j], k) => ByteBit(Data[j], k)

\* C7: a non-zero encoding was merged into bytes that had bits set, setting
\* some and leaving the byte outside the fixup.
C7_Witness ==
  /\ fix.hook = "apply" /\ Encoded # 0 /\ nFix > 1
  /\ \E j \in DOMAIN Data : prev[j] # 0 /\ Data[j] # prev[j] /\ Data[j] # ByteOf(Encoded, j - fix.Offset)
                            /\ j \in fix.Offset .. (fix.Offset + 3)
  /\ Data # Data0

=============================================================================
